---- MODULE Spec2Model ----
(***************************************************************************)
(* Sensor data management: the room registry (RoomCollection) and the      *)
(* sorted entry store (EntryCollection) of manager.c, with the two menu    *)
(* handlers of main.c that add rooms and entries.                          *)
(*                                                                         *)
(* Representation.                                                         *)
(*   - A C string is the sequence of its bytes before the terminator; a    *)
(*     byte is a number 1..255.  char name[MAX_STR] holds at most          *)
(*     MAX_STR-1 bytes.                                                    *)
(*   - A C array index i is the sequence index i+1.                        *)
(*   - A LogEntry* into ec->entries is the (1-based) slot number; a Room*  *)
(*     into rc->rooms is the (1-based) room number; NULL is 0.             *)
(*   - The arrays are zero-initialised ({ .size = 0 }), nothing is ever    *)
(*     removed, so a slot is either written or never read: an array is the *)
(*     sequence of the slots written so far, next to its size field.       *)
(*   - The collections are the two locals of main(); every call passes     *)
(*     their addresses, so the rc == NULL and ec == NULL returns are never *)
(*     taken, and an entry handed to entry_cmp is a slot or a local, never *)
(*     a null pointer.                                                     *)
(*   - rank is a history field of a LogEntry, not program data: the number *)
(*     of entries with the same (room, type, timestamp) that were in the   *)
(*     store when the entry was created.  No operation reads it.           *)
(***************************************************************************)
EXTENDS Integers, Sequences, FiniteSets, TLC

MAX_ARR == 16
MAX_STR == 32

TYPE_TEMP == 1
TYPE_DB == 2
TYPE_MOTION == 3

C_ERR_OK == 0
C_ERR_NULL_PTR == -1
C_ERR_FULL_ARRAY == -2
C_ERR_NOT_FOUND == -3
C_ERR_DUPLICATE == -4
C_ERR_INVALID == -5

NULL == 0

\* a null char*: no C string holds the byte 0
NullName == <<0>>

\* call: the frame of a rooms_add or entries_create call that has not
\* returned yet (its position and locals), for the specification that takes
\* the calls one statement at a time
VARIABLES rc, ec, op, ret, out, call

vars == <<rc, ec, op, ret, out, call>>

(***************************************************************************)
(* libc string functions, as manager.c uses them.                          *)
(***************************************************************************)
Min(a, b) == IF a < b THEN a ELSE b

Rep(n, c) == [i \in 1..n |-> c]

\* the byte at C index i-1 of a string: the terminator past its end
ByteAt(s, i) == IF i <= Len(s) THEN s[i] ELSE 0

\* strncmp(s1, s2, n): the difference of the first differing bytes (as
\* unsigned char) among the first n and up to the first terminator, 0 if
\* there is none
strncmp(s1, s2, n) ==
    LET last == Min(n, Min(Len(s1), Len(s2)) + 1)
        diff == {i \in 1..last : ByteAt(s1, i) # ByteAt(s2, i)}
    IN  IF diff = {} THEN 0
        ELSE LET first == CHOOSE i \in diff : \A j \in diff : i <= j
             IN  ByteAt(s1, first) - ByteAt(s2, first)

\* mutant: the whole name is copied (strcpy)
CopyName_whole(room_name) == room_name

\* strncpy(dst, src, MAX_STR - 1); dst[MAX_STR - 1] = '\0'
CopyName(room_name) == SubSeq(room_name, 1, Min(Len(room_name), MAX_STR - 1))

(***************************************************************************)
(* entry_cmp on two LogEntry values; rooms is rc.rooms, through which the   *)
(* room pointers are followed.                                             *)
(***************************************************************************)
\* mutant: the timestamps are compared by an int subtraction, which wraps
\* when the difference is outside the range of int
entry_cmp_sub(rooms, a, b) ==
    IF a.room = NULL \/ b.room = NULL THEN 0
    ELSE LET room_cmp == strncmp(rooms[a.room].name, rooms[b.room].name, MAX_STR)
         IN  IF room_cmp # 0 THEN room_cmp
             ELSE IF a.data.type < b.data.type THEN -1
             ELSE IF a.data.type > b.data.type THEN 1
             ELSE IF b.timestamp < 0 /\ a.timestamp > 2147483647 + b.timestamp THEN -1
             ELSE IF b.timestamp > 0 /\ a.timestamp < (-2147483647 - 1) + b.timestamp THEN 1
             ELSE a.timestamp - b.timestamp

\* mutant: the rooms are compared by address, not by name
entry_cmp_room_address(rooms, a, b) ==
    IF a.room = NULL \/ b.room = NULL THEN 0
    ELSE IF a.room # b.room THEN a.room - b.room
    ELSE IF a.data.type < b.data.type THEN -1
    ELSE IF a.data.type > b.data.type THEN 1
    ELSE IF a.timestamp < b.timestamp THEN -1
    ELSE IF a.timestamp > b.timestamp THEN 1
    ELSE 0

\* mutant: the timestamps are compared before the types
entry_cmp_time_first(rooms, a, b) ==
    IF a.room = NULL \/ b.room = NULL THEN 0
    ELSE LET room_cmp == strncmp(rooms[a.room].name, rooms[b.room].name, MAX_STR)
         IN  IF room_cmp # 0 THEN room_cmp
             ELSE IF a.timestamp < b.timestamp THEN -1
             ELSE IF a.timestamp > b.timestamp THEN 1
             ELSE IF a.data.type < b.data.type THEN -1
             ELSE IF a.data.type > b.data.type THEN 1
             ELSE 0

\* mutant: the timestamps are compared with <= alone, so never found equal
entry_cmp_never_equal(rooms, a, b) ==
    IF a.room = NULL \/ b.room = NULL THEN 0
    ELSE LET room_cmp == strncmp(rooms[a.room].name, rooms[b.room].name, MAX_STR)
         IN  IF room_cmp # 0 THEN room_cmp
             ELSE IF a.data.type < b.data.type THEN -1
             ELSE IF a.data.type > b.data.type THEN 1
             ELSE IF a.timestamp <= b.timestamp THEN -1
             ELSE 1

entry_cmp(rooms, a, b) ==
    IF a.room = NULL \/ b.room = NULL THEN 0
    ELSE LET room_cmp == strncmp(rooms[a.room].name, rooms[b.room].name, MAX_STR)
         IN  IF room_cmp # 0 THEN room_cmp
             ELSE IF a.data.type < b.data.type THEN -1
             ELSE IF a.data.type > b.data.type THEN 1
             ELSE IF a.timestamp < b.timestamp THEN -1
             ELSE IF a.timestamp > b.timestamp THEN 1
             ELSE 0

(***************************************************************************)
(* rooms_find: the room number of the first room whose name matches, or    *)
(* NULL.                                                                   *)
(***************************************************************************)
RECURSIVE RoomsFindFrom(_, _, _)
RoomsFindFrom(c, room_name, i) ==
    IF i > c.size THEN NULL
    ELSE IF strncmp(c.rooms[i].name, room_name, MAX_STR) = 0 THEN i
    ELSE RoomsFindFrom(c, room_name, i + 1)

\* mutant: the scan starts at the second room
rooms_find_skip_first(c, room_name) == RoomsFindFrom(c, room_name, 2)

RECURSIVE RoomsFindByteFrom(_, _, _)
RoomsFindByteFrom(c, room_name, i) ==
    IF i > c.size THEN NULL
    ELSE IF strncmp(c.rooms[i].name, room_name, 1) = 0 THEN i
    ELSE RoomsFindByteFrom(c, room_name, i + 1)

\* mutant: the names are compared on their first byte only
rooms_find_first_byte(c, room_name) == RoomsFindByteFrom(c, room_name, 1)

rooms_find(c, room_name) == RoomsFindFrom(c, room_name, 1)

(***************************************************************************)
(* rooms_add: [status, rc] for a non-null collection.                      *)
(***************************************************************************)
\* mutant: the new room is put in the first slot, the others moved up
AddRoom_front(c, room_name) ==
    [rooms |-> <<[name |-> CopyName(room_name), entries |-> <<>>, size |-> 0]>>
                   \o c.rooms,
     size |-> c.size + 1]

\* the room rooms_add appends
AddRoom(c, room_name) ==
    [rooms |-> Append(c.rooms, [name |-> CopyName(room_name),
                                entries |-> <<>>,
                                size |-> 0]),
     size |-> c.size + 1]

\* mutant: the capacity check lets a full registry through (> for >=)
rooms_add_gt(c, room_name) ==
    IF room_name = NullName THEN [status |-> C_ERR_NULL_PTR, rc |-> c]
    ELSE IF c.size > MAX_ARR THEN [status |-> C_ERR_FULL_ARRAY, rc |-> c]
    ELSE IF rooms_find(c, room_name) # NULL THEN [status |-> C_ERR_DUPLICATE, rc |-> c]
    ELSE [status |-> C_ERR_OK, rc |-> AddRoom(c, room_name)]

\* mutant: the room is written before the duplicate check
rooms_add_write_first(c, room_name) ==
    IF room_name = NullName THEN [status |-> C_ERR_NULL_PTR, rc |-> c]
    ELSE IF c.size >= MAX_ARR THEN [status |-> C_ERR_FULL_ARRAY, rc |-> c]
    ELSE IF rooms_find(c, room_name) # NULL
         THEN [status |-> C_ERR_DUPLICATE, rc |-> AddRoom(c, room_name)]
    ELSE [status |-> C_ERR_OK, rc |-> AddRoom(c, room_name)]

\* mutant: the duplicate check comes before the capacity check
rooms_add_duplicate_first(c, room_name) ==
    IF room_name = NullName THEN [status |-> C_ERR_NULL_PTR, rc |-> c]
    ELSE IF rooms_find(c, room_name) # NULL THEN [status |-> C_ERR_DUPLICATE, rc |-> c]
    ELSE IF c.size >= MAX_ARR THEN [status |-> C_ERR_FULL_ARRAY, rc |-> c]
    ELSE [status |-> C_ERR_OK, rc |-> AddRoom(c, room_name)]

rooms_add(c, room_name) ==
    IF room_name = NullName THEN [status |-> C_ERR_NULL_PTR, rc |-> c]
    ELSE IF c.size >= MAX_ARR THEN [status |-> C_ERR_FULL_ARRAY, rc |-> c]
    ELSE IF rooms_find(c, room_name) # NULL THEN [status |-> C_ERR_DUPLICATE, rc |-> c]
    ELSE [status |-> C_ERR_OK, rc |-> AddRoom(c, room_name)]

(***************************************************************************)
(* entries_create and its helpers.  st is [rc, ec]: the two collections a   *)
(* call reads and writes (the rooms through the entries' room pointers).   *)
(***************************************************************************)
\* array[t] = v, for a slot written before or the first slot never written
WriteSlot(array, t, v) ==
    IF t <= Len(array) THEN [array EXCEPT ![t] = v] ELSE Append(array, v)

RECURSIVE FindInsertionFrom(_, _, _)
FindInsertionFrom(st, new_entry, i) ==
    IF i > st.ec.size THEN st.ec.size + 1
    ELSE IF entry_cmp(st.rc.rooms, new_entry, st.ec.entries[i]) < 0 THEN i
    ELSE FindInsertionFrom(st, new_entry, i + 1)

\* mutant: the new entry always goes to the end of the store
find_insertion_position_append(st, new_entry) == st.ec.size + 1

RECURSIVE FindInsertionLeqFrom(_, _, _)
FindInsertionLeqFrom(st, new_entry, i) ==
    IF i > st.ec.size THEN st.ec.size + 1
    ELSE IF entry_cmp(st.rc.rooms, new_entry, st.ec.entries[i]) <= 0 THEN i
    ELSE FindInsertionLeqFrom(st, new_entry, i + 1)

\* mutant: the scan stops at the first entry that is not less (<= for <)
find_insertion_position_leq(st, new_entry) == FindInsertionLeqFrom(st, new_entry, 1)

find_insertion_position(st, new_entry) == FindInsertionFrom(st, new_entry, 1)

RECURSIVE RetargetFrom(_, _, _, _)
RetargetFrom(st, dst, src, j) ==
    LET r == st.ec.entries[dst].room
    IN  IF j > st.rc.rooms[r].size THEN st
        ELSE IF st.rc.rooms[r].entries[j] = src
             THEN [st EXCEPT !.rc.rooms[r].entries[j] = dst]
        ELSE RetargetFrom(st, dst, src, j + 1)

\* mutant: the moved entry's room pointer is left on the old slot
retarget_room_pointer_skip(st, dst, src) == st

RECURSIVE RetargetInFrom(_, _, _, _, _)
RetargetInFrom(st, r, dst, src, j) ==
    IF j > st.rc.rooms[r].size THEN st
    ELSE IF st.rc.rooms[r].entries[j] = src
         THEN [st EXCEPT !.rc.rooms[r].entries[j] = dst]
    ELSE RetargetInFrom(st, r, dst, src, j + 1)

\* mutant: the room whose list is updated is looked up by the name of the
\* moved entry's room
retarget_room_pointer_by_name(st, dst, src) ==
    RetargetInFrom(st, rooms_find(st.rc, st.rc.rooms[st.ec.entries[dst].room].name),
                   dst, src, 1)

retarget_room_pointer(st, dst, src) == RetargetFrom(st, dst, src, 1)

\* one turn of the loop of shift_entries_right, for the slot t (C index t-1)
ShiftStep(st, t) ==
    retarget_room_pointer(
        [st EXCEPT !.ec.entries = WriteSlot(st.ec.entries, t, st.ec.entries[t - 1])],
        t, t - 1)

RECURSIVE ShiftFrom(_, _, _)
ShiftFrom(st, insert_pos, t) ==
    IF t > insert_pos THEN ShiftFrom(ShiftStep(st, t), insert_pos, t - 1) ELSE st

RECURSIVE ShiftForwardFrom(_, _, _)
ShiftForwardFrom(st, last, t) ==
    IF t <= last THEN ShiftForwardFrom(ShiftStep(st, t), last, t + 1) ELSE st

\* mutant: the loop runs from insert_pos upwards, each slot taking the
\* value already copied into the slot below it
shift_entries_right_forward(st, insert_pos) ==
    ShiftForwardFrom(st, st.ec.size + 1, insert_pos + 1)

\* mutant: the loop starts one slot too low, at the last entry's own slot
shift_entries_right_short(st, insert_pos) == ShiftFrom(st, insert_pos, st.ec.size)

shift_entries_right(st, insert_pos) == ShiftFrom(st, insert_pos, st.ec.size + 1)

RECURSIVE RoomPosFrom(_, _, _, _)
RoomPosFrom(st, room, entry, i) ==
    IF i > st.rc.rooms[room].size THEN st.rc.rooms[room].size + 1
    ELSE IF entry_cmp(st.rc.rooms, st.ec.entries[entry],
                      st.ec.entries[st.rc.rooms[room].entries[i]]) < 0 THEN i
    ELSE RoomPosFrom(st, room, entry, i + 1)

RECURSIVE RoomShiftFrom(_, _, _)
RoomShiftFrom(list, insert_pos, t) ==
    IF t > insert_pos
    THEN RoomShiftFrom(WriteSlot(list, t, list[t - 1]), insert_pos, t - 1)
    ELSE list

\* mutant: the pointer is appended to the room's list
insert_pointer_in_room_append(st, room, entry) ==
    LET old == st.rc.rooms[room]
    IN  [st EXCEPT !.rc.rooms[room] =
            [old EXCEPT !.entries = WriteSlot(old.entries, old.size + 1, entry),
                        !.size = old.size + 1]]

\* mutant: the pointer is placed but the room's size is not incremented
insert_pointer_in_room_no_count(st, room, entry) ==
    LET insert_pos == RoomPosFrom(st, room, entry, 1)
        old == st.rc.rooms[room]
        shifted == RoomShiftFrom(old.entries, insert_pos, old.size + 1)
    IN  [st EXCEPT !.rc.rooms[room] =
            [old EXCEPT !.entries = WriteSlot(shifted, insert_pos, entry)]]

insert_pointer_in_room(st, room, entry) ==
    LET insert_pos == RoomPosFrom(st, room, entry, 1)
        old == st.rc.rooms[room]
        shifted == RoomShiftFrom(old.entries, insert_pos, old.size + 1)
    IN  [st EXCEPT !.rc.rooms[room] =
            [old EXCEPT !.entries = WriteSlot(shifted, insert_pos, entry),
                        !.size = old.size + 1]]

\* the number of stored entries with the key of a new one (history only)
TieRank(c, room, type, timestamp) ==
    Cardinality({i \in 1..c.size : /\ c.entries[i].room = room
                                   /\ c.entries[i].data.type = type
                                   /\ c.entries[i].timestamp = timestamp})

\* the part of entries_create past its checks: assemble, place, link
CommitEntry(st, room, type, value, timestamp) ==
    LET new_entry == [data |-> [type |-> type, value |-> value],
                      room |-> room,
                      timestamp |-> timestamp,
                      rank |-> TieRank(st.ec, room, type, timestamp)]
        insert_pos == find_insertion_position(st, new_entry)
        shifted == shift_entries_right(st, insert_pos)
        written == [shifted EXCEPT
                       !.ec.entries = WriteSlot(shifted.ec.entries, insert_pos, new_entry),
                       !.ec.size = shifted.ec.size + 1]
        linked == insert_pointer_in_room(written, room, insert_pos)
    IN  [status |-> C_ERR_OK, rc |-> linked.rc, ec |-> linked.ec]

\* mutant: the capacity checks let a full array through (> for >=)
entries_create_gt(st, room, type, value, timestamp) ==
    IF room = NULL THEN [status |-> C_ERR_NULL_PTR, rc |-> st.rc, ec |-> st.ec]
    ELSE IF type # TYPE_TEMP /\ type # TYPE_DB /\ type # TYPE_MOTION
         THEN [status |-> C_ERR_INVALID, rc |-> st.rc, ec |-> st.ec]
    ELSE IF st.ec.size > MAX_ARR \/ st.rc.rooms[room].size > MAX_ARR
         THEN [status |-> C_ERR_FULL_ARRAY, rc |-> st.rc, ec |-> st.ec]
    ELSE CommitEntry(st, room, type, value, timestamp)

\* mutant: the capacity is checked before the type
entries_create_capacity_first(st, room, type, value, timestamp) ==
    IF room = NULL THEN [status |-> C_ERR_NULL_PTR, rc |-> st.rc, ec |-> st.ec]
    ELSE IF st.ec.size >= MAX_ARR \/ st.rc.rooms[room].size >= MAX_ARR
         THEN [status |-> C_ERR_FULL_ARRAY, rc |-> st.rc, ec |-> st.ec]
    ELSE IF type # TYPE_TEMP /\ type # TYPE_DB /\ type # TYPE_MOTION
         THEN [status |-> C_ERR_INVALID, rc |-> st.rc, ec |-> st.ec]
    ELSE CommitEntry(st, room, type, value, timestamp)

\* mutant: the type is not validated
entries_create_any_type(st, room, type, value, timestamp) ==
    IF room = NULL THEN [status |-> C_ERR_NULL_PTR, rc |-> st.rc, ec |-> st.ec]
    ELSE IF st.ec.size >= MAX_ARR \/ st.rc.rooms[room].size >= MAX_ARR
         THEN [status |-> C_ERR_FULL_ARRAY, rc |-> st.rc, ec |-> st.ec]
    ELSE CommitEntry(st, room, type, value, timestamp)

\* entries_create: [status, rc, ec] for a non-null entry collection
entries_create(st, room, type, value, timestamp) ==
    IF room = NULL THEN [status |-> C_ERR_NULL_PTR, rc |-> st.rc, ec |-> st.ec]
    ELSE IF type # TYPE_TEMP /\ type # TYPE_DB /\ type # TYPE_MOTION
         THEN [status |-> C_ERR_INVALID, rc |-> st.rc, ec |-> st.ec]
    ELSE IF st.ec.size >= MAX_ARR \/ st.rc.rooms[room].size >= MAX_ARR
         THEN [status |-> C_ERR_FULL_ARRAY, rc |-> st.rc, ec |-> st.ec]
    ELSE CommitEntry(st, room, type, value, timestamp)

(***************************************************************************)
(* entry_print and room_print: what they return and report; e is a pointer *)
(* into the store c, r a room of the registry.                             *)
(***************************************************************************)
entry_print(c, e) ==
    IF e = NULL THEN C_ERR_NULL_PTR
    ELSE IF c.entries[e].room = NULL THEN C_ERR_INVALID
    ELSE IF c.entries[e].data.type = TYPE_TEMP THEN C_ERR_OK
    ELSE IF c.entries[e].data.type = TYPE_DB THEN C_ERR_OK
    ELSE IF c.entries[e].data.type = TYPE_MOTION THEN C_ERR_OK
    ELSE C_ERR_INVALID

\* the positions i for which room_print prints "Error printing entry i"
RoomPrintErrors(st, r) ==
    {i \in 1..st.rc.rooms[r].size :
        entry_print(st.ec, st.rc.rooms[r].entries[i]) # C_ERR_OK}

room_print(st, r) == IF r = NULL THEN C_ERR_NULL_PTR ELSE C_ERR_OK

(***************************************************************************)
(* main.c: the line readers and the two handlers that change the data.     *)
(***************************************************************************)
\* what an uninitialised char[MAX_STR] may hold, by two cases: a short
\* string ("A"), or MAX_STR bytes with no terminator among them
StackBytes == {<<65>>, Rep(MAX_STR, 65)}

\* read_room_name: scanf("%31[^\n]") stores at most 31 bytes of the line; on
\* an empty line it stores nothing and the buffer keeps what the stack held
read_room_name(line) ==
    IF line = <<>> THEN StackBytes
    ELSE {SubSeq(line, 1, Min(Len(line), MAX_STR - 1))}

\* the ReadingValue read_entry_data fills for a type: the bytes of the member
\* it reads (hundredths of a degree, decibels, the three motion bytes)
TempValue == <<2400>>
DbValue == <<45>>
MotionValue == <<1, 0, 1>>

ValueOf(type) ==
    IF type = TYPE_TEMP THEN TempValue
    ELSE IF type = TYPE_DB THEN DbValue
    ELSE MotionValue

\* the three numbers typed at the motion prompt, by two cases
MotionTyped == {<<1, 0, 1>>, <<0, 2, 0>>}

\* scanf("%hhu %hhu %hhu"): each number is stored in an unsigned char
read_motion(typed) == [k \in 1..3 |-> typed[k] % 256]

\* the ReadingValues read_entry_data may fill for a type
ReadValues(type) ==
    IF type = TYPE_MOTION THEN {read_motion(typed) : typed \in MotionTyped}
    ELSE {ValueOf(type)}

read_entry_data(type) ==
    IF type = TYPE_TEMP \/ type = TYPE_DB \/ type = TYPE_MOTION
    THEN C_ERR_OK ELSE C_ERR_INVALID

\* the local new_entry of entries_create before it is assigned
NoEntry ==
    [data |-> [type |-> 0, value |-> <<>>], room |-> NULL, timestamp |-> 0, rank |-> 0]

\* no call is in progress.  Of a frame, room_name, room and new_entry are
\* the arguments and the local of the call, insert_pos that of
\* entries_create, i the counter of the loop the call is in, j that of
\* retarget_room_pointer, room_pos the insert_pos of insert_pointer_in_room
\* (all as C index + 1)
Idle ==
    [pc |-> "idle", room_name |-> <<>>, room |-> NULL, new_entry |-> NoEntry,
     insert_pos |-> 0, i |-> 0, j |-> 0, room_pos |-> 0]

Init ==
    /\ rc = [rooms |-> <<>>, size |-> 0]
    /\ ec = [entries |-> <<>>, size |-> 0]
    /\ op = "none"
    /\ ret = C_ERR_OK
    /\ out = ""
    /\ call = Idle

\* a direct call rooms_add(&rooms, room_name)
RoomsAdd(room_name) ==
    \E r \in {rooms_add(rc, room_name)} :
        /\ rc' = r.rc
        /\ ret' = r.status
        /\ op' = "rooms_add"
        /\ out' = ""
        /\ UNCHANGED <<ec, call>>

\* a direct call entries_create(&entries, room, type, value, timestamp)
EntriesCreate(room, type, timestamp) ==
    \E r \in {entries_create([rc |-> rc, ec |-> ec], room, type, ValueOf(type), timestamp)} :
        /\ rc' = r.rc
        /\ ec' = r.ec
        /\ ret' = r.status
        /\ op' = "entries_create"
        /\ out' = ""
        /\ UNCHANGED call

\* handle_add_room once read_room_name has filled room_name
HandleAddRoomNamed(room_name) ==
    \E r \in {rooms_add(rc, room_name)} :
        /\ rc' = r.rc
        /\ ret' = r.status
        /\ op' = "handle_add_room"
        /\ out' = IF r.status = C_ERR_OK THEN "added successfully"
                  ELSE IF r.status = C_ERR_DUPLICATE THEN "already exists"
                  ELSE IF r.status = C_ERR_FULL_ARRAY THEN "maximum reached"
                  ELSE "error adding"
        /\ UNCHANGED <<ec, call>>

\* handle_add_room, for the line typed at its prompt
HandleAddRoom(line) ==
    \E room_name \in read_room_name(line) : HandleAddRoomNamed(room_name)

\* handle_add_entry once read_room_name has filled room_name, for the numbers
\* typed at the next prompts; ret is its local result, left unset on the two
\* early returns
HandleAddEntryNamed(room_name, type, value, timestamp) ==
    \E room \in {rooms_find(rc, room_name)} :
        /\ op' = "handle_add_entry"
        /\ UNCHANGED call
        /\ IF room = NULL
           THEN /\ out' = "not found"
                /\ UNCHANGED <<rc, ec, ret>>
           ELSE IF read_entry_data(type) # C_ERR_OK
           THEN /\ out' = "invalid entry data"
                /\ UNCHANGED <<rc, ec, ret>>
           ELSE \E r \in {entries_create([rc |-> rc, ec |-> ec], room, type,
                                         value, timestamp)} :
                /\ rc' = r.rc
                /\ ec' = r.ec
                /\ ret' = r.status
                /\ out' = IF r.status = C_ERR_OK THEN "added successfully"
                          ELSE IF r.status = C_ERR_FULL_ARRAY THEN "maximum reached"
                          ELSE IF r.status = C_ERR_INVALID THEN "invalid entry data"
                          ELSE "error adding"

\* handle_add_entry, for the line and the numbers typed at its prompts
HandleAddEntry(line, type, timestamp) ==
    \E room_name \in read_room_name(line), value \in ReadValues(type) :
        HandleAddEntryNamed(room_name, type, value, timestamp)

(***************************************************************************)
(* rooms_add and entries_create taken one statement, and one turn of a     *)
(* loop, at a time: call.pc is the statement the call is at.               *)
(***************************************************************************)
\* the call in progress returns status
Return(name, status) ==
    /\ op' = name
    /\ ret' = status
    /\ out' = ""
    /\ call' = Idle

\* rooms_add: the null and the capacity checks, then the call of rooms_find
AddBegin(room_name) ==
    /\ call.pc = "idle"
    /\ UNCHANGED <<rc, ec>>
    /\ IF room_name = NullName THEN Return("rooms_add", C_ERR_NULL_PTR)
       ELSE IF rc.size >= MAX_ARR THEN Return("rooms_add", C_ERR_FULL_ARRAY)
       ELSE /\ call' = [Idle EXCEPT !.pc = "find", !.room_name = room_name, !.i = 1]
            /\ UNCHANGED <<op, ret, out>>

\* one turn of the loop of rooms_find; a match makes rooms_add return
AddFind ==
    /\ call.pc = "find"
    /\ UNCHANGED <<rc, ec>>
    /\ IF call.i > rc.size
       THEN /\ call' = [call EXCEPT !.pc = "append"]
            /\ UNCHANGED <<op, ret, out>>
       ELSE IF strncmp(rc.rooms[call.i].name, call.room_name, MAX_STR) = 0
       THEN Return("rooms_add", C_ERR_DUPLICATE)
       ELSE /\ call' = [call EXCEPT !.i = call.i + 1]
            /\ UNCHANGED <<op, ret, out>>

\* rooms_add: the new room written, rc->size++, return C_ERR_OK
AddAppend ==
    /\ call.pc = "append"
    /\ rc' = AddRoom(rc, call.room_name)
    /\ UNCHANGED ec
    /\ Return("rooms_add", C_ERR_OK)

\* the status of the three checks at the head of entries_create
CreateChecks(room, type) ==
    IF room = NULL THEN C_ERR_NULL_PTR
    ELSE IF type # TYPE_TEMP /\ type # TYPE_DB /\ type # TYPE_MOTION THEN C_ERR_INVALID
    ELSE IF ec.size >= MAX_ARR \/ rc.rooms[room].size >= MAX_ARR THEN C_ERR_FULL_ARRAY
    ELSE C_ERR_OK

\* entries_create: the checks, then new_entry assembled and
\* find_insertion_position called
CreateBegin(room, type, timestamp) ==
    /\ call.pc = "idle"
    /\ UNCHANGED <<rc, ec>>
    /\ IF CreateChecks(room, type) # C_ERR_OK
       THEN Return("entries_create", CreateChecks(room, type))
       ELSE /\ call' = [Idle EXCEPT
                           !.pc = "search",
                           !.room = room,
                           !.new_entry =
                               [data |-> [type |-> type, value |-> ValueOf(type)],
                                room |-> room,
                                timestamp |-> timestamp,
                                rank |-> TieRank(ec, room, type, timestamp)],
                           !.i = 1]
            /\ UNCHANGED <<op, ret, out>>

\* one turn of the loop of find_insertion_position; its return value goes
\* to insert_pos and shift_entries_right starts at i = ec->size
CreateSearch ==
    /\ call.pc = "search"
    /\ UNCHANGED <<rc, ec, op, ret, out>>
    /\ IF call.i <= ec.size
             /\ ~(entry_cmp(rc.rooms, call.new_entry, ec.entries[call.i]) < 0)
       THEN call' = [call EXCEPT !.i = call.i + 1]
       ELSE call' = [call EXCEPT !.pc = "shift", !.insert_pos = call.i,
                                 !.i = ec.size + 1]

\* shift_entries_right: ec->entries[i] = ec->entries[i - 1], then the call
\* of retarget_room_pointer
CreateCopy ==
    /\ call.pc = "shift" /\ call.i > call.insert_pos
    /\ ec' = [ec EXCEPT !.entries = WriteSlot(ec.entries, call.i, ec.entries[call.i - 1])]
    /\ call' = [call EXCEPT !.pc = "retarget", !.j = 1]
    /\ UNCHANGED <<rc, op, ret, out>>

\* mutant: the loop of retarget_room_pointer stops at the pointer to the old
\* slot without repointing it
CreateRetarget_no_update ==
    /\ call.pc = "retarget"
    /\ UNCHANGED <<rc, ec, op, ret, out>>
    /\ \E r \in {ec.entries[call.i].room} :
          IF call.j > rc.rooms[r].size \/ rc.rooms[r].entries[call.j] = call.i - 1
          THEN call' = [call EXCEPT !.pc = "shift", !.i = call.i - 1]
          ELSE call' = [call EXCEPT !.j = call.j + 1]

\* mutant: shift_entries_right does not decrement i
CreateRetarget_no_decrement ==
    /\ call.pc = "retarget"
    /\ UNCHANGED <<ec, op, ret, out>>
    /\ \E r \in {ec.entries[call.i].room} :
          IF call.j > rc.rooms[r].size
          THEN /\ call' = [call EXCEPT !.pc = "shift"]
               /\ UNCHANGED rc
          ELSE IF rc.rooms[r].entries[call.j] = call.i - 1
          THEN /\ rc' = [rc EXCEPT !.rooms[r].entries[call.j] = call.i]
               /\ call' = [call EXCEPT !.pc = "shift"]
          ELSE /\ call' = [call EXCEPT !.j = call.j + 1]
               /\ UNCHANGED rc

\* one turn of the loop of retarget_room_pointer(&entries[i], &entries[i - 1]);
\* when it is left, by the break or at its end, the i-- of shift_entries_right
CreateRetarget ==
    /\ call.pc = "retarget"
    /\ UNCHANGED <<ec, op, ret, out>>
    /\ \E r \in {ec.entries[call.i].room} :
          IF call.j > rc.rooms[r].size
          THEN /\ call' = [call EXCEPT !.pc = "shift", !.i = call.i - 1]
               /\ UNCHANGED rc
          ELSE IF rc.rooms[r].entries[call.j] = call.i - 1
          THEN /\ rc' = [rc EXCEPT !.rooms[r].entries[call.j] = call.i]
               /\ call' = [call EXCEPT !.pc = "shift", !.i = call.i - 1]
          ELSE /\ call' = [call EXCEPT !.j = call.j + 1]
               /\ UNCHANGED rc

\* the loop of shift_entries_right left: ec->entries[insert_pos] = new_entry
CreateWrite ==
    /\ call.pc = "shift" /\ call.i <= call.insert_pos
    /\ ec' = [ec EXCEPT !.entries = WriteSlot(ec.entries, call.insert_pos, call.new_entry)]
    /\ call' = [call EXCEPT !.pc = "count"]
    /\ UNCHANGED <<rc, op, ret, out>>

\* ec->size++, then the call of insert_pointer_in_room
CreateCount ==
    /\ call.pc = "count"
    /\ ec' = [ec EXCEPT !.size = ec.size + 1]
    /\ call' = [call EXCEPT !.pc = "link", !.i = 1]
    /\ UNCHANGED <<rc, op, ret, out>>

\* one turn of the search loop of insert_pointer_in_room; when it is left
\* the shift loop starts at i = room->size
CreateLink ==
    /\ call.pc = "link"
    /\ UNCHANGED <<rc, ec, op, ret, out>>
    /\ IF call.i <= rc.rooms[call.room].size
             /\ ~(entry_cmp(rc.rooms, ec.entries[call.insert_pos],
                            ec.entries[rc.rooms[call.room].entries[call.i]]) < 0)
       THEN call' = [call EXCEPT !.i = call.i + 1]
       ELSE call' = [call EXCEPT !.pc = "roomshift", !.room_pos = call.i,
                                 !.i = rc.rooms[call.room].size + 1]

\* insert_pointer_in_room: room->entries[i] = room->entries[i - 1]; i--
CreateRoomShift ==
    /\ call.pc = "roomshift" /\ call.i > call.room_pos
    /\ rc' = [rc EXCEPT !.rooms[call.room].entries =
                  WriteSlot(rc.rooms[call.room].entries, call.i,
                            rc.rooms[call.room].entries[call.i - 1])]
    /\ call' = [call EXCEPT !.i = call.i - 1]
    /\ UNCHANGED <<ec, op, ret, out>>

\* insert_pointer_in_room: room->entries[insert_pos] = entry
CreateRoomWrite ==
    /\ call.pc = "roomshift" /\ call.i <= call.room_pos
    /\ rc' = [rc EXCEPT !.rooms[call.room].entries =
                  WriteSlot(rc.rooms[call.room].entries, call.room_pos, call.insert_pos)]
    /\ call' = [call EXCEPT !.pc = "roomcount"]
    /\ UNCHANGED <<ec, op, ret, out>>

\* insert_pointer_in_room: room->size++; entries_create: return C_ERR_OK
CreateReturn ==
    /\ call.pc = "roomcount"
    /\ rc' = [rc EXCEPT !.rooms[call.room].size = rc.rooms[call.room].size + 1]
    /\ UNCHANGED ec
    /\ Return("entries_create", C_ERR_OK)

(***************************************************************************)
(* Spec: any sequence of rooms_add and entries_create calls, on short and  *)
(* long room names, while the registry holds at most MaxRooms rooms and    *)
(* the store at most MaxEntries entries.                                   *)
(***************************************************************************)
MaxRooms == 2
MaxEntries == 3

\* "A", 31 times 'A' (the longest name a room holds) and 32 times 'A'
RoomNames == {<<65>>, Rep(MAX_STR - 1, 65), Rep(MAX_STR, 65)}
Types == {TYPE_TEMP, TYPE_MOTION, 4}
Timestamps == {50, 100}

AddsWithin(room_name) == rooms_add(rc, room_name).rc.size <= MaxRooms

CreatesWithin(room, type, timestamp) ==
    entries_create([rc |-> rc, ec |-> ec], room, type, ValueOf(type), timestamp).ec.size
        <= MaxEntries

Next ==
    \/ \E room_name \in RoomNames \cup {NullName} :
          AddsWithin(room_name) /\ RoomsAdd(room_name)
    \/ \E room \in 0..rc.size, type \in Types, timestamp \in Timestamps :
          CreatesWithin(room, type, timestamp) /\ EntriesCreate(room, type, timestamp)

Spec == Init /\ [][Next]_vars

(***************************************************************************)
(* SpecMenu: the program as main() runs it, every change made through the  *)
(* two handlers, within the same MaxRooms and MaxEntries.                  *)
(***************************************************************************)
\* "A", 32 times 'A' and the empty line
Lines == {<<65>>, Rep(MAX_STR, 65), <<>>}

NextMenu ==
    \/ \E line \in Lines :
          rc.size < MaxRooms /\ HandleAddRoom(line)
    \/ \E line \in Lines, type \in Types, timestamp \in Timestamps :
          ec.size < MaxEntries /\ HandleAddEntry(line, type, timestamp)

SpecMenu == Init /\ [][NextMenu]_vars

(***************************************************************************)
(* SpecCap: the collections filled to MAX_ARR.  The rooms are added under  *)
(* the one-byte names <<1>>, <<2>>, ... in turn, each call trying the next *)
(* unused name or the first name again; entries go to the first two rooms, *)
(* all with one timestamp.                                                 *)
(***************************************************************************)
CapNames == {<<rc.size + 1>>, <<1>>}
CapRooms == {room \in {NULL, 1, 2} : room <= rc.size}
CapTypes == {TYPE_DB, 4}
CapTimestamps == {100}

NextCap ==
    \/ \E room_name \in CapNames : RoomsAdd(room_name)
    \/ \E room \in CapRooms, type \in CapTypes, timestamp \in CapTimestamps :
          EntriesCreate(room, type, timestamp)

SpecCap == Init /\ [][NextCap]_vars

(***************************************************************************)
(* SpecFill: the registry filled to MAX_ARR as in SpecCap, and the store    *)
(* and the first room's list filled to MAX_ARR with entries of one type at *)
(* two timestamps, so that an entry at the smaller one is placed before    *)
(* the entries at the larger one and these move up, in the store and in    *)
(* the room's list.                                                        *)
(***************************************************************************)
FillTimestamps == {50, 100}

NextFill ==
    \/ \E room_name \in CapNames : RoomsAdd(room_name)
    \/ \E timestamp \in FillTimestamps :
          rc.size >= 1 /\ EntriesCreate(1, TYPE_DB, timestamp)

SpecFill == Init /\ [][NextFill]_vars

(***************************************************************************)
(* SpecOrder: the rooms "B", "A" and "AB" added in this order (each call   *)
(* trying the next name or the first again), entries of every type created  *)
(* in any order at the least and the greatest int timestamp, while the     *)
(* store holds at most MaxEntries entries.                                 *)
(***************************************************************************)
OrderNames == <<(<<66>>), (<<65>>), (<<65, 66>>)>>
OrderAdds == {OrderNames[Min(rc.size + 1, Len(OrderNames))], OrderNames[1]}
OrderTypes == {TYPE_TEMP, TYPE_DB, TYPE_MOTION}
\* INT_MIN and INT_MAX of a 32-bit int
OrderTimestamps == {-2147483647 - 1, 2147483647}

NextOrder ==
    \/ \E room_name \in OrderAdds : RoomsAdd(room_name)
    \/ \E room \in 1..rc.size, type \in OrderTypes, timestamp \in OrderTimestamps :
          CreatesWithin(room, type, timestamp) /\ EntriesCreate(room, type, timestamp)

SpecOrder == Init /\ [][NextOrder]_vars

(***************************************************************************)
(* SpecSteps: rooms_add and entries_create calls taken one statement at a  *)
(* time, one call at a time; the names of SpecOrder and the null name, a   *)
(* null or an existing room, two types and one timestamp, while the store  *)
(* holds fewer than MaxEntries entries.                                    *)
(***************************************************************************)
StepTypes == {TYPE_TEMP, TYPE_MOTION}
StepTimestamps == {100}

\* a statement of the call in progress
CallStep ==
    \/ AddFind
    \/ AddAppend
    \/ CreateSearch
    \/ CreateCopy
    \/ CreateRetarget
    \/ CreateWrite
    \/ CreateCount
    \/ CreateLink
    \/ CreateRoomShift
    \/ CreateRoomWrite
    \/ CreateReturn

NextSteps ==
    \/ \E room_name \in OrderAdds \cup {NullName} : AddBegin(room_name)
    \/ \E room \in 0..rc.size, type \in StepTypes, timestamp \in StepTimestamps :
          ec.size < MaxEntries /\ CreateBegin(room, type, timestamp)
    \/ CallStep

SpecSteps == Init /\ [][NextSteps]_vars

\* the program is one thread: a call in progress takes its next statement
SpecStepsFair == SpecSteps /\ WF_vars(CallStep)

(***************************************************************************)
(* Properties of the two collections.                                      *)
(***************************************************************************)
\* the slots of the rooms' pointer lists: <<room, C index + 1>>
Refs == {x \in (1..rc.size) \X (1..MAX_ARR) : x[2] <= rc.rooms[x[1]].size}

Target(x) == rc.rooms[x[1]].entries[x[2]]

SameKey(a, b) ==
    /\ a.room = b.room
    /\ a.data.type = b.data.type
    /\ a.timestamp = b.timestamp

\* C1 (bijection): every occupied store slot is the target of exactly one
\* slot of the rooms' pointer lists, and every slot of every room's list
\* points at an occupied store slot.
C1_Bijection ==
    /\ \A i \in 1..ec.size : Cardinality({x \in Refs : Target(x) = i}) = 1
    /\ \A x \in Refs : Target(x) \in 1..ec.size

\* two rooms with the same stored name, their entries interleaved in the store
C1_Witness ==
    /\ op = "entries_create" /\ ret = C_ERR_OK
    /\ rc.size = 2 /\ ec.size = 3
    /\ rc.rooms[1].name = rc.rooms[2].name
    /\ rc.rooms[1].entries = <<1, 3>>
    /\ rc.rooms[2].entries = <<2>>
    /\ C1_Bijection

\* C2 (sortedness): entry_cmp of every two adjacent occupied store slots is
\* not greater than 0.
C2_Sorted ==
    \A i \in 1..(ec.size - 1) :
        entry_cmp(rc.rooms, ec.entries[i], ec.entries[i + 1]) <= 0

\* a store of three entries that a create has just filled: the room added
\* second sorts first, and its two entries differ in type
C2_Witness ==
    /\ op = "entries_create" /\ ret = C_ERR_OK
    /\ ec.size = 3
    /\ ec.entries[1].room = 2 /\ ec.entries[2].room = 2 /\ ec.entries[3].room = 1
    /\ ec.entries[1].data.type < ec.entries[2].data.type
    /\ ec.entries[1].timestamp > ec.entries[2].timestamp
    /\ C2_Sorted

\* C3 (room view order): every room's list is non-decreasing under entry_cmp
\* and the store slots it points at increase strictly along the list.
C3_RoomViewOrder ==
    \A r \in 1..rc.size :
        \A j \in 1..(rc.rooms[r].size - 1) :
            /\ rc.rooms[r].entries[j] < rc.rooms[r].entries[j + 1]
            /\ entry_cmp(rc.rooms, ec.entries[rc.rooms[r].entries[j]],
                         ec.entries[rc.rooms[r].entries[j + 1]]) <= 0

\* a room whose three entries were not created in their sorted order: the
\* entry of the later type holds the smaller timestamp
C3_Witness ==
    /\ op = "entries_create" /\ ret = C_ERR_OK
    /\ rc.size = 2
    /\ rc.rooms[1].size = 2 /\ rc.rooms[2].size = 1
    /\ rc.rooms[1].entries = <<2, 3>> /\ rc.rooms[2].entries = <<1>>
    /\ ec.entries[2].timestamp > ec.entries[3].timestamp
    /\ C3_RoomViewOrder

\* C4 (stability of ties): of two entries with the same room, type and
\* timestamp, the one created first (the smaller rank) is in the lower
\* store slot and at the lower position of the room's list.
C4_TieStability ==
    \A i, j \in 1..ec.size :
        (SameKey(ec.entries[i], ec.entries[j]) /\ ec.entries[i].rank < ec.entries[j].rank)
            => /\ i < j
               /\ \E x, y \in Refs :
                    /\ x[1] = ec.entries[i].room /\ y[1] = x[1]
                    /\ Target(x) = i /\ Target(y) = j
                    /\ x[2] < y[2]

\* two tied entries with a third entry of the same room created around them
C4_Witness ==
    /\ op = "entries_create" /\ ret = C_ERR_OK
    /\ ec.size = 3
    /\ SameKey(ec.entries[2], ec.entries[3])
    /\ ec.entries[2].rank = 0 /\ ec.entries[3].rank = 1
    /\ ec.entries[1].room = ec.entries[2].room
    /\ C4_TieStability

\* C5 (unique room names): no two rooms of the registry hold the same name.
C5_UniqueNames ==
    \A i, j \in 1..rc.size : i # j => rc.rooms[i].name # rc.rooms[j].name

ValidTypes == {TYPE_TEMP, TYPE_DB, TYPE_MOTION}

StoredNames == {rc.rooms[i].name : i \in 1..rc.size}

\* C6 (store capacity): an entries_create call with an existing room and a
\* valid type returns C_ERR_OK while the store holds fewer than MAX_ARR
\* entries (so the first 16 such calls do) and C_ERR_FULL_ARRAY once it
\* holds MAX_ARR; no entries_create call on a full store changes the store
\* or a room.
C6_StoreCapacity ==
    [][\A room \in 0..rc.size, type \in CapTypes, timestamp \in CapTimestamps :
          EntriesCreate(room, type, timestamp) =>
              /\ (room # NULL /\ type \in ValidTypes /\ ec.size < MAX_ARR)
                     => (ret' = C_ERR_OK /\ ec'.size = ec.size + 1)
              /\ (room # NULL /\ type \in ValidTypes /\ ec.size = MAX_ARR)
                     => ret' = C_ERR_FULL_ARRAY
              /\ ec.size = MAX_ARR => (ec' = ec /\ rc' = rc)]_vars

\* a create refused on a full store whose target room's list is not full
C6_Witness ==
    /\ op = "entries_create" /\ ret = C_ERR_FULL_ARRAY
    /\ ec.size = MAX_ARR
    /\ rc.size >= 2
    /\ rc.rooms[1].size < MAX_ARR /\ rc.rooms[2].size < MAX_ARR

\* C7 (registry capacity): a rooms_add call with a name that no room holds
\* returns C_ERR_OK and adds one room while the registry holds fewer than
\* MAX_ARR rooms (so 16 calls with distinct names do), and returns
\* C_ERR_FULL_ARRAY and changes nothing once it holds MAX_ARR.
C7_RegistryCapacity ==
    [][\A room_name \in CapNames :
          (RoomsAdd(room_name) /\ room_name \notin StoredNames) =>
              IF rc.size < MAX_ARR
              THEN ret' = C_ERR_OK /\ rc'.size = rc.size + 1
              ELSE ret' = C_ERR_FULL_ARRAY /\ rc' = rc /\ ec' = ec]_vars

\* a rooms_add refused on a registry of MAX_ARR rooms
C7_Witness ==
    /\ op = "rooms_add" /\ ret = C_ERR_FULL_ARRAY
    /\ rc.size = MAX_ARR
    /\ Cardinality(StoredNames) = MAX_ARR

\* C8 (duplicate rejection): while the registry holds fewer than MAX_ARR
\* rooms, rooms_add with a name equal to the stored name of a room returns
\* C_ERR_DUPLICATE and changes neither the registry nor the store.
C8_DuplicateRejected ==
    [][\A room_name \in RoomNames :
          (RoomsAdd(room_name) /\ rc.size < MAX_ARR /\ room_name \in StoredNames) =>
              ret' = C_ERR_DUPLICATE /\ rc' = rc /\ ec' = ec]_vars

\* a duplicate refused while the first room's name is 31 bytes long and the
\* room holds entries
C8_Witness ==
    /\ op = "rooms_add" /\ ret = C_ERR_DUPLICATE
    /\ rc.size = 1
    /\ Len(rc.rooms[1].name) = MAX_STR - 1
    /\ rc.rooms[1].size = 2

\* C9 (unknown room): handle_add_entry, given a room name that no room of
\* the registry holds, reports "not found" and changes neither the registry
\* nor the store.
C9_UnknownRoomRejected ==
    [][\A line \in Lines, type \in Types, timestamp \in Timestamps :
          \A room_name \in read_room_name(line), value \in ReadValues(type) :
              (op' = "handle_add_entry" /\ room_name \notin StoredNames
                   /\ HandleAddEntryNamed(room_name, type, value, timestamp)) =>
                  out' = "not found" /\ rc' = rc /\ ec' = ec]_vars

\* "not found" reported while the registry holds rooms and the store entries
C9_Witness ==
    /\ op = "handle_add_entry" /\ out = "not found"
    /\ rc.size >= 1 /\ ec.size >= 1

\* C10 (invalid type): entries_create with an existing room and a type other
\* than 1, 2, 3 returns C_ERR_INVALID and changes nothing, also when the
\* store or the room's list is full.
C10_InvalidType ==
    [][\A room \in 1..rc.size, type \in CapTypes \ ValidTypes, timestamp \in CapTimestamps :
          EntriesCreate(room, type, timestamp) =>
              ret' = C_ERR_INVALID /\ rc' = rc /\ ec' = ec]_vars

\* C_ERR_INVALID returned for the only room, whose list and the store are full
C10_Witness ==
    /\ op = "entries_create" /\ ret = C_ERR_INVALID
    /\ rc.size = 1
    /\ ec.size = MAX_ARR /\ rc.rooms[1].size = MAX_ARR

\* C11 (validate, then commit): a rooms_add or entries_create call that
\* returns a status other than C_ERR_OK (C_ERR_NULL_PTR, C_ERR_INVALID,
\* C_ERR_FULL_ARRAY or C_ERR_DUPLICATE) leaves the registry and the store,
\* with every room's name, list and size, as they were before the call.
C11_ValidateThenCommit ==
    [][/\ \A room_name \in CapNames :
             (RoomsAdd(room_name) /\ ret' # C_ERR_OK) => (rc' = rc /\ ec' = ec)
       /\ \A room \in CapRooms, type \in CapTypes, timestamp \in CapTimestamps :
             (EntriesCreate(room, type, timestamp) /\ ret' # C_ERR_OK)
                 => (rc' = rc /\ ec' = ec)]_vars

\* a duplicate name refused while two rooms hold entries and slots are free
C11_Witness ==
    /\ op = "rooms_add" /\ ret = C_ERR_DUPLICATE
    /\ rc.size = 3 /\ ec.size = 4
    /\ rc.rooms[1].size = 2 /\ rc.rooms[2].size = 2

\* s precedes t in the byte-wise order of C strings, over at most MAX_STR bytes
NameLess(s, t) ==
    \E k \in 1..MAX_STR :
        /\ \A i \in 1..(k - 1) : ByteAt(s, i) = ByteAt(t, i) /\ ByteAt(s, i) # 0
        /\ ByteAt(s, k) < ByteAt(t, k)

\* a precedes b in the lexicographic order of (room name, type, timestamp)
KeyLess(a, b) ==
    LET s == rc.rooms[a.room].name
        t == rc.rooms[b.room].name
    IN  \/ NameLess(s, t)
        \/ /\ ~NameLess(t, s)
           /\ \/ a.data.type < b.data.type
              \/ a.data.type = b.data.type /\ a.timestamp < b.timestamp

\* C12 (ordering rule): for every two entries a and b with rooms, entry_cmp(a, b)
\* is negative when a precedes b in the lexicographic order of (room name
\* over at most 32 bytes, type, timestamp), positive when b precedes a and
\* 0 otherwise, the timestamps INT_MIN and INT_MAX included.
C12_OrderingRule ==
    \A i, j \in 1..ec.size :
        LET a == ec.entries[i]
            b == ec.entries[j]
            c == entry_cmp(rc.rooms, a, b)
        IN  /\ KeyLess(a, b) => c < 0
            /\ KeyLess(b, a) => c > 0
            /\ (~KeyLess(a, b) /\ ~KeyLess(b, a)) => c = 0

\* one room holds an entry at INT_MIN and one at INT_MAX of the same type,
\* and another room, added later under a smaller name, holds an entry
C12_Witness ==
    /\ op = "entries_create" /\ ret = C_ERR_OK
    /\ ec.size = 3 /\ rc.size >= 2
    /\ ec.entries[1].room = 2
    /\ ec.entries[2].room = 1 /\ ec.entries[3].room = 1
    /\ ec.entries[2].data.type = ec.entries[3].data.type
    /\ ec.entries[2].timestamp < 0 /\ ec.entries[3].timestamp = 2147483647
    /\ C12_OrderingRule

\* C13 (name truncation): rooms_add with a name of more than 31 characters,
\* on a registry that is not full and where rooms_find finds no such name,
\* returns C_ERR_OK; the room a rooms_add call adds holds the first 31
\* characters of a longer name, and a name of 31 characters or fewer whole.
C13_NameTruncation ==
    [][\A room_name \in RoomNames :
          RoomsAdd(room_name) =>
              /\ (/\ Len(room_name) > MAX_STR - 1
                  /\ rc.size < MAX_ARR
                  /\ rooms_find(rc, room_name) = NULL) => ret' = C_ERR_OK
              /\ ret' = C_ERR_OK =>
                     /\ rc'.size = rc.size + 1
                     /\ Len(rc'.rooms[rc'.size].name)
                            = IF Len(room_name) > MAX_STR - 1
                              THEN MAX_STR - 1 ELSE Len(room_name)
                     /\ \A i \in 1..Len(rc'.rooms[rc'.size].name) :
                            rc'.rooms[rc'.size].name[i] = room_name[i]]_vars

\* a second room of 31 bytes, which only the 32-byte name can have added
C13_Witness ==
    /\ op = "rooms_add" /\ ret = C_ERR_OK
    /\ rc.size = 2
    /\ Len(rc.rooms[1].name) = MAX_STR - 1
    /\ Len(rc.rooms[2].name) = MAX_STR - 1

\* the sequence s without its element p
Without(s, p) == [i \in 1..(Len(s) - 1) |-> IF i < p THEN s[i] ELSE s[i + 1]]

\* the occupied slots of the store
Stored(c) == SubSeq(c.entries, 1, c.size)

\* C14 (append-only entries): an entries_create call that returns C_ERR_OK
\* changes the store only by adding the new entry: some slot p holds the
\* reading, room and timestamp of the call, and the store after the call
\* without slot p is the store before the call, entry by entry and in the
\* same order.
C14_AppendOnly ==
    [][\A room \in 1..rc.size, type \in OrderTypes, timestamp \in OrderTimestamps :
          (op' = "entries_create" /\ ret' = C_ERR_OK
               /\ EntriesCreate(room, type, timestamp)) =>
              /\ ec'.size = ec.size + 1
              /\ \E p \in 1..ec'.size :
                    /\ ec'.entries[p].data = [type |-> type, value |-> ValueOf(type)]
                    /\ ec'.entries[p].room = room
                    /\ ec'.entries[p].timestamp = timestamp
                    /\ Without(Stored(ec'), p) = Stored(ec)]_vars

\* a store of three entries after a create: the entry of the room "A", added
\* second, is in the first slot, before two tied entries of the room "B"
C14_Witness ==
    /\ op = "entries_create" /\ ret = C_ERR_OK
    /\ ec.size = 3
    /\ ec.entries[1].room = 2
    /\ ec.entries[2].room = 1
    /\ SameKey(ec.entries[2], ec.entries[3])
    /\ ec.entries[2].rank = 0 /\ ec.entries[3].rank = 1

\* C15 (capacity bounds): the registry's size, the store's size and every
\* room's list size are between 0 and MAX_ARR, and no slot past the last
\* (C index MAX_ARR - 1) of the registry, the store or a room's list has
\* been written.
C15_CapacityBounds ==
    /\ rc.size \in 0..MAX_ARR /\ Len(rc.rooms) <= MAX_ARR
    /\ ec.size \in 0..MAX_ARR /\ Len(ec.entries) <= MAX_ARR
    /\ \A r \in 1..Len(rc.rooms) :
          /\ rc.rooms[r].size \in 0..MAX_ARR
          /\ Len(rc.rooms[r].entries) <= MAX_ARR

\* the registry, the store and the first room's list all full, the entry
\* in the first slot at the smaller timestamp and tied entries behind it
C15_Witness ==
    /\ op = "entries_create" /\ ret = C_ERR_OK
    /\ rc.size = MAX_ARR /\ Len(rc.rooms) = MAX_ARR
    /\ ec.size = MAX_ARR /\ Len(ec.entries) = MAX_ARR
    /\ rc.rooms[1].size = MAX_ARR /\ Len(rc.rooms[1].entries) = MAX_ARR
    /\ ec.entries[1].timestamp < ec.entries[2].timestamp
    /\ ec.entries[MAX_ARR].rank = MAX_ARR - 2

\* C16 (room name dominates): every stored entry of a room whose name is
\* byte-wise smaller is in a lower store slot than every entry of a room
\* whose name is larger, whatever the types, the timestamps and the order
\* of the creates.
C16_RoomNameDominates ==
    \A i, j \in 1..ec.size :
        NameLess(rc.rooms[ec.entries[i].room].name, rc.rooms[ec.entries[j].room].name)
            => i < j

\* the rooms added as "B", "A", "AB" hold one entry each, stored in the
\* order "A", "AB", "B", the first at the greatest timestamp
C16_Witness ==
    /\ op = "entries_create" /\ ret = C_ERR_OK
    /\ rc.size = 3 /\ ec.size = 3
    /\ ec.entries[1].room = 2 /\ ec.entries[2].room = 3 /\ ec.entries[3].room = 1
    /\ ec.entries[1].timestamp > ec.entries[3].timestamp
    /\ ec.entries[1].data.type > ec.entries[2].data.type

\* a may stand before b among the entries of one room: its type is smaller
\* (temperature 1, sound level 2, motion 3), or the types are equal and its
\* timestamp is not greater
KindThenTime(a, b) ==
    \/ a.data.type < b.data.type
    \/ a.data.type = b.data.type /\ a.timestamp <= b.timestamp

\* C17 (kind dominates timestamp): of two entries of one room, the one in
\* the lower store slot, and the one at the lower position of the room's
\* list, has the smaller type or, with the same type, a timestamp that is
\* not greater, whatever the timestamps and the order of the creates.
C17_KindDominates ==
    /\ \A i, j \in 1..ec.size :
          (i < j /\ ec.entries[i].room = ec.entries[j].room)
              => KindThenTime(ec.entries[i], ec.entries[j])
    /\ \A r \in 1..rc.size :
          \A p, q \in 1..rc.rooms[r].size :
              p < q => KindThenTime(ec.entries[rc.rooms[r].entries[p]],
                                    ec.entries[rc.rooms[r].entries[q]])

\* one room holds temperature at the greater timestamp, sound level at the
\* smaller and motion at the greater, in this order
C17_Witness ==
    /\ op = "entries_create" /\ ret = C_ERR_OK
    /\ rc.size >= 1 /\ rc.rooms[1].size = 3
    /\ LET e1 == ec.entries[rc.rooms[1].entries[1]]
           e2 == ec.entries[rc.rooms[1].entries[2]]
           e3 == ec.entries[rc.rooms[1].entries[3]]
       IN  /\ e1.data.type = TYPE_TEMP /\ e2.data.type = TYPE_DB
           /\ e3.data.type = TYPE_MOTION
           /\ e1.timestamp > e2.timestamp /\ e3.timestamp > e2.timestamp

\* C18 (motion flag domain): each of the three flags of every stored motion
\* entry is 0 or 1.
C18_MotionFlags ==
    \A i \in 1..ec.size :
        ec.entries[i].data.type = TYPE_MOTION
            => \A k \in 1..3 : ec.entries[i].data.value[k] \in {0, 1}

\* C19 (a room's list holds its own entries): every slot of a room's list
\* points at a stored entry whose room pointer is that room, and every
\* stored entry is pointed at from the list of its room and from no other
\* room's list.
C19_OwnEntries ==
    /\ \A x \in Refs :
          /\ Target(x) \in 1..ec.size
          /\ ec.entries[Target(x)].room = x[1]
    /\ \A i \in 1..ec.size :
          /\ \E x \in Refs : x[1] = ec.entries[i].room /\ Target(x) = i
          /\ \A x \in Refs : Target(x) = i => x[1] = ec.entries[i].room

\* two rooms with the same stored name: the second room's entries are in
\* the first and the last slot, the first room's entry between them
C19_Witness ==
    /\ op = "entries_create" /\ ret = C_ERR_OK
    /\ rc.size = 2 /\ ec.size = 3
    /\ rc.rooms[1].name = rc.rooms[2].name
    /\ rc.rooms[1].entries = <<2>>
    /\ rc.rooms[2].entries = <<1, 3>>
    /\ ec.entries[2].room = 1

\* C20 (well-formed entries): every stored entry has a room of the registry
\* and a type among 1, 2, 3; so entry_cmp never sees a null room on stored
\* entries, entry_print returns C_ERR_OK for every stored entry, and
\* room_print returns C_ERR_OK for every room and reports no entry it
\* could not print.
C20_WellFormed ==
    /\ \A i \in 1..ec.size :
          /\ ec.entries[i].room # NULL
          /\ ec.entries[i].room \in 1..rc.size
          /\ ec.entries[i].data.type \in ValidTypes
          /\ entry_print(ec, i) = C_ERR_OK
    /\ \A r \in 1..rc.size :
          /\ room_print([rc |-> rc, ec |-> ec], r) = C_ERR_OK
          /\ RoomPrintErrors([rc |-> rc, ec |-> ec], r) = {}

\* a create with the type 4 refused on a store that holds entries of two
\* rooms
C20_Witness ==
    /\ op = "entries_create" /\ ret = C_ERR_INVALID
    /\ rc.size = 2 /\ ec.size = 3
    /\ rc.rooms[1].size >= 1 /\ rc.rooms[2].size >= 1
    /\ C20_WellFormed

\* the LogEntry that entries_create assembles from its arguments
Candidate(room, type, timestamp) ==
    [data |-> [type |-> type, value |-> ValueOf(type)],
     room |-> room,
     timestamp |-> timestamp,
     rank |-> TieRank(ec, room, type, timestamp)]

\* C21 (insertion index): an entries_create call that returns C_ERR_OK writes
\* the new entry at the first slot whose resident compares greater than it,
\* or past the last resident if none does: every resident before that slot
\* compares less than or equal to the new entry, the resident of the slot
\* compares greater, and the slot's C index is the number of residents
\* that compare less than or equal.
C21_InsertionIndex ==
    [][\A room \in 1..rc.size, type \in OrderTypes, timestamp \in OrderTimestamps :
          (op' = "entries_create" /\ ret' = C_ERR_OK
               /\ EntriesCreate(room, type, timestamp)) =>
              LET new_entry == Candidate(room, type, timestamp)
                  notGreater == {k \in 1..ec.size :
                                    entry_cmp(rc.rooms, ec.entries[k], new_entry) <= 0}
              IN  \E pos \in 1..ec'.size :
                      /\ ec'.entries[pos] = new_entry
                      /\ \A k \in 1..(pos - 1) : k \in notGreater
                      /\ pos <= ec.size =>
                             entry_cmp(rc.rooms, ec.entries[pos], new_entry) > 0
                      /\ pos - 1 = Cardinality(notGreater)]_vars

\* a store of three entries of one room after a create: two tied entries
\* and behind them an entry of a greater type
C21_Witness ==
    /\ op = "entries_create" /\ ret = C_ERR_OK
    /\ ec.size = 3
    /\ SameKey(ec.entries[1], ec.entries[2])
    /\ ec.entries[1].rank = 0 /\ ec.entries[2].rank = 1
    /\ ec.entries[3].room = ec.entries[1].room
    /\ ec.entries[3].data.type > ec.entries[2].data.type

\* the state entries_create has reached after its shift, before it writes
\* the new entry
AfterShift(room, type, timestamp) ==
    shift_entries_right([rc |-> rc, ec |-> ec],
        find_insertion_position([rc |-> rc, ec |-> ec], Candidate(room, type, timestamp)))

\* C22 (shift and retarget): after the shift of an entries_create with the
\* insertion slot pos and before the new entry is written, every entry that
\* was in a slot k >= pos is in slot k + 1 and the entries below pos are
\* where they were; every slot of a room's list that pointed at a slot
\* k >= pos points at k + 1 and the others are unchanged, so that one
\* pointer has changed for each entry moved; the sizes are unchanged.
C22_ShiftRetarget ==
    \A room \in 1..rc.size, type \in OrderTypes, timestamp \in OrderTimestamps :
        LET pos == find_insertion_position([rc |-> rc, ec |-> ec],
                                           Candidate(room, type, timestamp))
            sh == AfterShift(room, type, timestamp)
        IN  /\ sh.ec.size = ec.size /\ sh.rc.size = rc.size
            /\ Len(sh.ec.entries) >= ec.size
            /\ pos <= ec.size => Len(sh.ec.entries) >= ec.size + 1
            /\ \A k \in 1..ec.size :
                  IF k >= pos THEN sh.ec.entries[k + 1] = ec.entries[k]
                  ELSE sh.ec.entries[k] = ec.entries[k]
            /\ \A r \in 1..rc.size :
                  /\ sh.rc.rooms[r].size = rc.rooms[r].size
                  /\ sh.rc.rooms[r].name = rc.rooms[r].name
            /\ \A x \in Refs :
                  sh.rc.rooms[x[1]].entries[x[2]]
                      = IF Target(x) >= pos THEN Target(x) + 1 ELSE Target(x)
            /\ Cardinality({x \in Refs : sh.rc.rooms[x[1]].entries[x[2]] # Target(x)})
                  = ec.size + 1 - pos

\* a store of three entries of two rooms where a create for the room "A"
\* at the least timestamp and type shifts all three
C22_Witness ==
    /\ rc.size >= 2 /\ ec.size = 3
    /\ rc.rooms[1].size = 1 /\ rc.rooms[2].size = 2
    /\ find_insertion_position([rc |-> rc, ec |-> ec],
                               Candidate(2, TYPE_TEMP, -2147483647 - 1)) = 1
    /\ AfterShift(2, TYPE_TEMP, -2147483647 - 1).rc.rooms[1].entries = <<4>>
    /\ AfterShift(2, TYPE_TEMP, -2147483647 - 1).rc.rooms[2].entries = <<2, 3>>

\* C23 (effect of a successful rooms_add): the registry's size grows by one,
\* the new room is in the last slot with an empty list, every room that
\* was there keeps its slot, name and list, and the store is unchanged.
C23_AddEffect ==
    [][\A room_name \in OrderAdds :
          (op' = "rooms_add" /\ ret' = C_ERR_OK /\ RoomsAdd(room_name)) =>
              /\ rc'.size = rc.size + 1
              /\ rc'.rooms[rc'.size].name = room_name
              /\ rc'.rooms[rc'.size].size = 0
              /\ \A r \in 1..rc.size : rc'.rooms[r] = rc.rooms[r]
              /\ ec' = ec
              /\ \A i \in 1..ec'.size : ec'.entries[i].room \in 1..rc.size]_vars

\* a third room added while the first two hold entries
C23_Witness ==
    /\ op = "rooms_add" /\ ret = C_ERR_OK
    /\ rc.size = 3 /\ ec.size = 3
    /\ rc.rooms[1].size >= 1 /\ rc.rooms[2].size >= 1
    /\ rc.rooms[3].size = 0

\* C24 (error precedence in rooms_add): on a registry of MAX_ARR rooms,
\* rooms_add with the name of a stored room returns C_ERR_DUPLICATE.
C24_DuplicateBeforeFull ==
    [][\A room_name \in CapNames :
          (op' = "rooms_add" /\ rc.size = MAX_ARR /\ room_name \in StoredNames
               /\ RoomsAdd(room_name)) => ret' = C_ERR_DUPLICATE]_vars

\* C24, amended: on a registry of MAX_ARR rooms rooms_add returns
\* C_ERR_FULL_ARRAY and changes nothing, for the name of a stored room as for
\* a new name: the capacity check comes before the duplicate check.
C24_FullBeforeDuplicate ==
    [][\A room_name \in CapNames :
          (op' = "rooms_add" /\ rc.size = MAX_ARR /\ RoomsAdd(room_name))
              => (ret' = C_ERR_FULL_ARRAY /\ rc' = rc /\ ec' = ec)]_vars

\* C_ERR_FULL_ARRAY on a full registry that holds the name <<1>>, which is
\* one of the two names tried there, and whose store holds entries
C24_Witness ==
    /\ op = "rooms_add" /\ ret = C_ERR_FULL_ARRAY
    /\ rc.size = MAX_ARR
    /\ <<1>> \in StoredNames /\ <<1>> \in CapNames
    /\ ec.size >= 1

RECURSIVE SumSizes(_, _)
\* the sum of the list sizes of the first n rooms
SumSizes(rooms, n) == IF n = 0 THEN 0 ELSE rooms[n].size + SumSizes(rooms, n - 1)

\* C25 (room lists bounded by the store): the list sizes of all rooms add
\* up to the store's size, so no list is longer than the store holds
\* entries, and entries_create returns C_ERR_FULL_ARRAY only when the store
\* itself holds MAX_ARR entries, never for a room's list alone.
C25_ListsBoundedByStore ==
    /\ SumSizes(rc.rooms, rc.size) = ec.size
    /\ \A r \in 1..rc.size : rc.rooms[r].size <= ec.size
    /\ \A room \in 1..rc.size, type \in CapTypes, timestamp \in CapTimestamps :
          entries_create([rc |-> rc, ec |-> ec], room, type,
                         ValueOf(type), timestamp).status = C_ERR_FULL_ARRAY
              => ec.size = MAX_ARR
    /\ (op = "entries_create" /\ ret = C_ERR_FULL_ARRAY) => ec.size = MAX_ARR

\* a create refused on a full store shared unevenly by two rooms
C25_Witness ==
    /\ op = "entries_create" /\ ret = C_ERR_FULL_ARRAY
    /\ rc.size >= 2
    /\ rc.rooms[1].size = 10 /\ rc.rooms[2].size = 6
    /\ C25_ListsBoundedByStore

\* C26 (non-atomic insertion): with the statements of entries_create taken
\* as separate steps, the bijection of C1 holds whenever no call is in
\* progress, so again once a call has returned, and does not hold, for the
\* collections as their sizes delimit them, between the increment of the
\* store's size and the insertion of the pointer into the room's list.
C26_NonAtomic ==
    /\ call.pc = "idle" => C1_Bijection
    /\ call.pc \in {"link", "roomshift", "roomcount"} => ~C1_Bijection

\* in the middle of the shift: the topmost entry is copied and its room's
\* pointer retargeted past the store's size, other entries are yet to move
C26_Witness ==
    /\ call.pc = "shift"
    /\ call.insert_pos < call.i /\ call.i <= ec.size
    /\ \E x \in Refs : Target(x) = ec.size + 1
    /\ ~C1_Bijection

\* C27 (termination): every rooms_add and entries_create call in progress,
\* with the loops of rooms_find, find_insertion_position,
\* shift_entries_right, retarget_room_pointer and insert_pointer_in_room
\* taken turn by turn, eventually returns.
C27_Termination == (call.pc # "idle") ~> (call.pc = "idle")

\* a call in the second turn of the loop of retarget_room_pointer, inside
\* the first turn of the loop of shift_entries_right, two entries to move
C27_Witness ==
    /\ call.pc = "retarget"
    /\ call.j = 2
    /\ call.i = ec.size + 1 /\ call.insert_pos = 1 /\ ec.size = 2

\* the entries that the list of the room r of the registry c resolves to in
\* the store e, in list order
RoomView(c, e, r) ==
    [j \in 1..c.rooms[r].size |-> e.entries[c.rooms[r].entries[j]]]

\* C28 (other rooms' views are preserved): an entries_create call for a room
\* that returns C_ERR_OK leaves the registry's size and every room's name
\* unchanged, and leaves every other room's list size and the sequence of
\* entries its list resolves to unchanged, whether or not its pointers
\* were retargeted.
C28_OtherViews ==
    [][\A room \in 1..rc.size, type \in OrderTypes, timestamp \in OrderTimestamps :
          (op' = "entries_create" /\ ret' = C_ERR_OK
               /\ EntriesCreate(room, type, timestamp)) =>
              /\ rc'.size = rc.size
              /\ \A r \in 1..rc.size : rc'.rooms[r].name = rc.rooms[r].name
              /\ \A r \in (1..rc.size) \ {room} :
                    /\ rc'.rooms[r].size = rc.rooms[r].size
                    /\ RoomView(rc', ec', r) = RoomView(rc, ec, r)]_vars

\* the first slot holds the only entry of the room "A" and both entries of
\* the room "B" have pointers past it: whichever was created last, the list
\* of the other room was retargeted or left alone by that create
C28_Witness ==
    /\ op = "entries_create" /\ ret = C_ERR_OK
    /\ rc.size = 3 /\ ec.size = 3
    /\ rc.rooms[2].entries = <<1>> /\ rc.rooms[2].size = 1
    /\ rc.rooms[1].entries = <<2, 3>> /\ rc.rooms[1].size = 2
    /\ rc.rooms[3].size = 0
    /\ ec.entries[2].timestamp < ec.entries[3].timestamp

Sign(x) == IF x < 0 THEN -1 ELSE IF x > 0 THEN 1 ELSE 0

\* C29 (total preorder): for all entries a, b, c with rooms, the sign of
\* entry_cmp(a, b) is the negation of the sign of entry_cmp(b, a),
\* entry_cmp(a, a) is 0, and entry_cmp(a, b) <= 0 with entry_cmp(b, c) <= 0
\* implies entry_cmp(a, c) <= 0.
C29_TotalPreorder ==
    \A i, j, k \in 1..ec.size :
        LET a == ec.entries[i]
            b == ec.entries[j]
            c == ec.entries[k]
        IN  /\ Sign(entry_cmp(rc.rooms, a, b)) = -Sign(entry_cmp(rc.rooms, b, a))
            /\ entry_cmp(rc.rooms, a, a) = 0
            /\ (entry_cmp(rc.rooms, a, b) <= 0 /\ entry_cmp(rc.rooms, b, c) <= 0)
                   => entry_cmp(rc.rooms, a, c) <= 0

\* three stored entries that differ in one component after another: the
\* first two in the room, the last two, tied on the type, in the timestamp
C29_Witness ==
    /\ ec.size = 3
    /\ ec.entries[1].room # ec.entries[2].room
    /\ ec.entries[2].room = ec.entries[3].room
    /\ ec.entries[2].data.type = ec.entries[3].data.type
    /\ ec.entries[2].timestamp < ec.entries[3].timestamp
    /\ ec.entries[1].data.type > ec.entries[2].data.type
    /\ entry_cmp(rc.rooms, ec.entries[1], ec.entries[3]) < 0

\* C30 (add/find round trip): immediately after rooms_add(name) returns Ok,
\* rooms_find(name) with the same input name returns the room that call
\* created (the last of the registry), for every input name including names
\* longer than 31 characters.
C30_AddFindRoundTrip ==
    [][\A room_name \in RoomNames :
          (op' = "rooms_add" /\ ret' = C_ERR_OK /\ RoomsAdd(room_name)) =>
              rooms_find(rc', room_name) = rc'.size]_vars

\* the registry c before any entry was created: every room's list empty
NoLists(c) ==
    [c EXCEPT !.rooms = [r \in 1..c.size |->
                            [c.rooms[r] EXCEPT !.entries = <<>>, !.size = 0]]]

RECURSIVE CreateAll(_, _, _, _)
\* the state after the entries_create calls for e.entries[p[k]],
\* e.entries[p[k + 1]], ... in this order, made from the state st
CreateAll(st, e, p, k) ==
    IF k > e.size THEN st
    ELSE LET x == e.entries[p[k]]
             r == entries_create(st, x.room, x.data.type, x.data.value, x.timestamp)
         IN  CreateAll([rc |-> r.rc, ec |-> r.ec], e, p, k + 1)

\* the (room, kind, timestamp) keys of the stored entries are pairwise distinct
DistinctKeys ==
    \A i, j \in 1..ec.size :
        i # j => <<ec.entries[i].room, ec.entries[i].data.type, ec.entries[i].timestamp>>
                    # <<ec.entries[j].room, ec.entries[j].data.type, ec.entries[j].timestamp>>

\* C31 (order independence): for a fixed set of rooms and a set of entries
\* with pairwise distinct (room, kind, timestamp) keys that fits the capacity,
\* the final store sequence and every room's resolved entry sequence are the
\* same for every order in which the entries_create calls are made.
C31_OrderIndependence ==
    DistinctKeys =>
        \A p \in Permutations(1..ec.size) :
            LET final == CreateAll([rc |-> NoLists(rc), ec |-> [size |-> 0, entries |-> <<>>]],
                                   ec, p, 1)
            IN  /\ final.ec = ec
                /\ \A r \in 1..rc.size :
                      /\ final.rc.rooms[r].size = rc.rooms[r].size
                      /\ RoomView(final.rc, final.ec, r) = RoomView(rc, ec, r)

====
